---- MODULE Spec2Model ----
(***************************************************************************)
(* The macOS monitor adapter of xcap (src/macos/impl_monitor.rs):          *)
(* ImplMonitor::new, all, from_point, screen_map, capture_image and        *)
(* video_recorder, run by a single caller against an operating system      *)
(* whose display configuration may change between any two OS queries.      *)
(*                                                                         *)
(* Representation of values.                                               *)
(*   Option<T>      a sequence: <<>> is None, <<v>> is Some(v).            *)
(*   f64            an integer in a unit fixed per quantity: points for    *)
(*                  geometry (CoreGraphics places displays at integral     *)
(*                  origins and sizes them by integral mode dimensions),   *)
(*                  degrees for rotation, 2^-HzFracBits Hz for refresh     *)
(*                  rates.                                                 *)
(*   f32            an integer in the same unit, holding at most 24        *)
(*                  significant bits (F64AsF32 rounds to them).            *)
(*   HashMap<K,V>   a function whose domain is the set of keys.            *)
(*   XCapResult<T>  a record [kind, err, value, map]; kind "Panic" is a    *)
(*                  call that unwound instead of returning.                *)
(***************************************************************************)
EXTENDS Integers, Sequences, FiniteSets, TLC

\* ------------------------------------------------------------- bounds

\* Display ids the OS may know: 1..NumDisplays.
NumDisplays == 2

\* OS configuration changes (hot-plug, mode switch, rearrangement) in a run.
MaxEnvSteps == 1

\* ---------------------------------------------------- program constants

\* let max_displays: u32 = 16
MaxDisplays == 16

I32Max == 2147483647

I32Min == -I32Max - 1

\* Significant bits of an f32.
F32Bits == 24

\* Binary digits after the point in the unit of a refresh rate.
HzFracBits == 20

\* core_graphics: kCGWindowListOptionAll = 0, kCGNullWindowID = 0
kCGWindowListOptionAll == 0

kCGNullWindowID == 0

\* ------------------------------------------------------ numeric casts

RECURSIVE Pow2(_)
Pow2(n) == IF n = 0 THEN 1 ELSE 2 * Pow2(n - 1)

Abs(v) == IF v < 0 THEN -v ELSE v

\* Number of binary digits of n >= 0.
RECURSIVE BitLen(_)
BitLen(n) == IF n = 0 THEN 0 ELSE 1 + BitLen(n \div 2)

\* `v as f32` of an f64 v: round to 24 significant bits, ties to even.
F64AsF32(v) ==
    LET a    == Abs(v)
        bits == BitLen(a)
    IN IF bits <= F32Bits THEN v
       ELSE LET sh   == Pow2(bits - F32Bits)
                q    == a \div sh
                r    == a % sh
                half == sh \div 2
                up   == (r > half) \/ (r = half /\ q % 2 = 1)
                m    == (IF up THEN q + 1 ELSE q) * sh
            IN IF v < 0 THEN -m ELSE m

\* `v as i32` of an f64 v holding an integral value: saturating.
F64AsI32(v) == IF v > I32Max THEN I32Max ELSE IF v < I32Min THEN I32Min ELSE v

\* `v as u32` of an f64 v holding an integral value: negative values give 0
\* (the values of the model stay below u32::MAX).
F64AsU32(v) == IF v < 0 THEN 0 ELSE v

\* `v as f32` of an unsigned integer v.
U64AsF32(v) == F64AsF32(v)

\* a / b in f32: the quotient is kept as its two f32 operands (NaN is 0/0 and
\* the infinities are n/0, as in IEEE 754).
F32Div(a, b) == [num |-> a, den |-> b]

\* format!("{n}") of an unsigned integer: its decimal digits.
Digit(d) == CASE d = 0 -> "0" [] d = 1 -> "1" [] d = 2 -> "2" [] d = 3 -> "3"
              [] d = 4 -> "4" [] d = 5 -> "5" [] d = 6 -> "6" [] d = 7 -> "7"
              [] d = 8 -> "8" [] d = 9 -> "9"

RECURSIVE Decimal(_)
Decimal(n) == IF n < 10 THEN Digit(n) ELSE Decimal(n \div 10) \o Digit(n % 10)

\* ------------------------------------------------ the operating system

Ids == 1..NumDisplays

\* kCGNullDirectDisplay, the value the display-id buffer is filled with.
NullDisplay == 0

Rect(x, y, w, h) == [x |-> x, y |-> y, width |-> w, height |-> h]

CGRectZero == Rect(0, 0, 0, 0)

Mode(pw, hz) == [pixel_width |-> pw, refresh_rate |-> hz]

\* Refresh rates in use: 60 Hz exactly, and 59.94 Hz (62851645 * 2^-20), which
\* no f32 holds. Bounds are in the global coordinate space: a display left of
\* and above the main display has a negative origin.
\* A configuration of a display: its bounds, current mode and rotation. The
\* second and third share their bounds, as mirrored displays do.
Config(r, m, rot) == [bounds |-> r, mode |-> <<m>>, rotation |-> rot]

Configs ==
    { Config(Rect(0, 0, 1920, 1080), Mode(3840, 60 * Pow2(HzFracBits)), 0),
      Config(Rect(-1080, -420, 1080, 1920), Mode(1080, 62851645), 90),
      Config(Rect(-1080, -420, 1080, 1920), Mode(2160, 60 * Pow2(HzFracBits)), 270) }

\* A display that is not connected.
NoConfig == [bounds |-> CGRectZero, mode |-> <<>>, rotation |-> 0]

\* CGError values: 0 is success, 1000 kCGErrorFailure, 1001 kCGErrorIllegalArgument.
CGErrorSuccess == 0

CGErrors == {CGErrorSuccess, 1000, 1001}

\* Points from_point is asked about.
Points == { <<0, 0>>, <<-500, 100>> }

\* CGDisplayModelNumber: a property of the hardware, different from the id.
ModelNumber(id) == 610 + id

\* NSScreen.localizedName of the screen showing display id: two external
\* displays of one make have the same name.
LocalizedName(id) == IF id = 1 THEN "Built-in Retina Display" ELSE "DELL U2720Q"

NSScreen(number, name) == [number |-> number, name |-> name]

VARIABLES
    os,          \* per display id: [bounds, mode, rotation] as CoreGraphics reports them
    activeList,  \* the active display list, in the order the OS returns it
    screens,     \* NSScreen::screens: a sequence of [number, name]
    envSteps,    \* OS configuration changes so far
    pc,          \* "idle", or the call in progress: "all", "from_point"
    call,        \* the current (or last) call: its operation, thread and OS answers
    allIdx,      \* all(): index of the next element of display_ids
    acc,         \* all(): impl_monitors; from_point(): its impl_monitor
    newLog,      \* the outcome of each ImplMonitor::new of the current call so far
    result,      \* what the last finished call returned
    monitors,    \* the records the caller holds
    captured,    \* the arguments of the call of capture() the last call made, if any
    lastOp       \* the step taken last

envVars == <<os, activeList, screens, envSteps>>

progVars == <<pc, call, allIdx, acc, newLog, result, monitors, captured>>

vars == <<os, activeList, screens, envSteps, pc, call, allIdx, acc, newLog,
          result, monitors, captured, lastOp>>

Range(s) == { s[i] : i \in 1..Len(s) }

\* CGDisplayBounds; an id the OS does not know has CGRectZero.
CGDisplayBounds(id) == IF id \in Ids THEN os[id].bounds ELSE CGRectZero

\* CGDisplayCopyDisplayMode: None for a display without a current mode.
CGDisplayCopyDisplayMode(id) == IF id \in Ids THEN os[id].mode ELSE <<>>

CGDisplayRotation(id) == IF id \in Ids THEN os[id].rotation ELSE 0

CGDisplayIsActive(id) == id \in Range(activeList)

\* The first entry of the active display list is the main display.
CGDisplayIsMain(id) == activeList # <<>> /\ id = Head(activeList)

RectContains(r, p) ==
    /\ r.x <= p[1] /\ p[1] < r.x + r.width
    /\ r.y <= p[2] /\ p[2] < r.y + r.height

\* The active displays whose bounds contain point p, in list order.
DisplaysAt(p) ==
    SelectSeq(activeList, LAMBDA id : RectContains(CGDisplayBounds(id), p))

\* vec![0; max_displays as usize]
ZeroBuffer(n) == [i \in 1..n |-> NullDisplay]

\* CGGetDisplaysWithPoint(point, max_displays, displays, display_count): on
\* success the first min(n, max_displays) entries of the buffer are written and
\* the count is set; on an error neither is touched.
CGGetDisplaysWithPoint(p, max_displays, buf, cg_error) ==
    LET found == DisplaysAt(p)
        n     == IF Len(found) < max_displays THEN Len(found) ELSE max_displays
    IN IF cg_error # CGErrorSuccess
       THEN [display_ids |-> buf, display_count |-> 0]
       ELSE [display_ids |-> [i \in 1..Len(buf) |-> IF i <= n THEN found[i] ELSE buf[i]],
             display_count |-> n]

\* --------------------------------------------------- errors and results

NoError == [variant |-> "None", code |-> 0, msg |-> ""]

\* XCapError::CoreGraphicsDisplayCGError(cg_error)
CoreGraphicsDisplayCGError(e) ==
    [variant |-> "CoreGraphicsDisplayCGError", code |-> e, msg |-> ""]

\* XCapError::new(message)
XCapErrorNew(m) == [variant |-> "Error", code |-> 0, msg |-> m]

\* The `?` on a Result<_, CGError>: the XCapError that From<CGError> makes of
\* the code (the conversion is not part of this file; its result is kept as
\* the code it was made of).
FromCGError(e) == [variant |-> "From<CGError>", code |-> e, msg |-> ""]

EmptyMap == <<>>

Ok(v) == [kind |-> "Ok", err |-> NoError, value |-> v, map |-> EmptyMap]

OkMap(m) == [kind |-> "Ok", err |-> NoError, value |-> <<>>, map |-> m]

Err(e) == [kind |-> "Err", err |-> e, value |-> <<>>, map |-> EmptyMap]

Panic == [kind |-> "Panic", err |-> NoError, value |-> <<>>, map |-> EmptyMap]

Returned(op, r) == [op |-> op, kind |-> r.kind, err |-> r.err, value |-> r.value, map |-> r.map]

NoCall == [op |-> "none", main |-> TRUE, cg_error |-> 0, id |-> NullDisplay,
           point |-> <<0, 0>>, display_count |-> 0, display_ids |-> <<>>]

\* ------------------------------------------------------------ screen_map

MapInsert(map, k, v) == [x \in (DOMAIN map) \cup {k} |-> IF x = k THEN v ELSE map[x]]

MapGet(map, k) == IF k \in DOMAIN map THEN <<map[k]>> ELSE <<>>

\* NSNumber::as_u32 of an NSScreenNumber, which holds a CGDirectDisplayID.
NSNumberAsU32(n) == n

\* The loop over the screens: an entry is inserted for each screen whose device
\* description has an NSScreenNumber.
RECURSIVE InsertScreens(_, _)
InsertScreens(screen_name_map, ss) ==
    IF ss = <<>> THEN screen_name_map
    ELSE LET screen      == Head(ss)
             screen_name == screen.name
             description == screen.number
         IN InsertScreens(
                IF description # <<>>
                THEN MapInsert(screen_name_map, NSNumberAsU32(description[1]), screen_name)
                ELSE screen_name_map,
                Tail(ss))

\* MainThreadMarker::new(): Some on the main thread, None elsewhere.
MainThreadMarkerNew(main) == IF main THEN <<"MainThreadMarker">> ELSE <<>>

\* A bug (or a repair): off the main thread an Err is returned, no panic.
screen_map_checked(main) ==
    IF MainThreadMarkerNew(main) = <<>>
    THEN Err([variant |-> "Io", code |-> 0, msg |-> "not on the main thread"])
    ELSE OkMap(InsertScreens(EmptyMap, screens))

\* ImplMonitor::screen_map, called on a thread that is (main) or is not the main
\* thread; thread.unwrap() panics on None.
screen_map(main) ==
    LET thread == MainThreadMarkerNew(main)
    IN IF thread = <<>> THEN Panic
       ELSE OkMap(InsertScreens(EmptyMap, screens))

\* ------------------------------------------------------------------- new

get_cg_display_mode(cg_display) ==
    LET display_mode == CGDisplayCopyDisplayMode(cg_display)
    IN IF display_mode = <<>>
       THEN Err(XCapErrorNew("Get display mode failed"))
       ELSE Ok(display_mode)

\* format!("Monitor #{screen_num}")
DefaultName(screen_num) == "Monitor #" \o Decimal(screen_num)

\* A bug: the name of whichever screen the map holds, not the one of screen_id.
MonitorNameAnyScreen(screen_name_map, screen_id, default_name) ==
    IF DOMAIN screen_name_map # {}
    THEN screen_name_map[CHOOSE k \in DOMAIN screen_name_map : TRUE]
    ELSE default_name

\* screen_name_map.get(&screen_id).unwrap_or(&default_name).clone()
MonitorName(screen_name_map, screen_id, default_name) ==
    LET entry == MapGet(screen_name_map, screen_id)
    IN IF entry # <<>> THEN entry[1] ELSE default_name

\* Result::unwrap_or on the result of screen_map
UnwrapOrMap(r, default) == IF r.kind = "Ok" THEN r.map ELSE default

\* A bug: the width is taken from the mode's pixel width, not from the bounds.
MonitorRecordPixelWidth(cg_display, screen_num, cg_rect, cg_display_mode, screen_name_map) ==
    [ cg_display   |-> cg_display,
      id           |-> cg_display,
      name         |-> MonitorName(screen_name_map, cg_display, DefaultName(screen_num)),
      x            |-> F64AsI32(cg_rect.x),
      y            |-> F64AsI32(cg_rect.y),
      width        |-> cg_display_mode.pixel_width,
      height       |-> F64AsU32(cg_rect.height),
      rotation     |-> F64AsF32(CGDisplayRotation(cg_display)),
      scale_factor |-> F32Div(U64AsF32(cg_display_mode.pixel_width), F64AsF32(cg_rect.width)),
      frequency    |-> F64AsF32(cg_display_mode.refresh_rate),
      is_primary   |-> CGDisplayIsMain(cg_display) ]

\* The record ImplMonitor::new builds once the display mode and the screen-name
\* map are known.
MonitorRecord(cg_display, screen_num, cg_rect, cg_display_mode, screen_name_map) ==
    [ cg_display   |-> cg_display,
      id           |-> cg_display,
      name         |-> MonitorName(screen_name_map, cg_display, DefaultName(screen_num)),
      x            |-> F64AsI32(cg_rect.x),
      y            |-> F64AsI32(cg_rect.y),
      width        |-> F64AsU32(cg_rect.width),
      height       |-> F64AsU32(cg_rect.height),
      rotation     |-> F64AsF32(CGDisplayRotation(cg_display)),
      scale_factor |-> F32Div(U64AsF32(cg_display_mode.pixel_width), F64AsF32(cg_rect.width)),
      frequency    |-> F64AsF32(cg_display_mode.refresh_rate),
      is_primary   |-> CGDisplayIsMain(cg_display) ]

\* ImplMonitor::new(id) on a thread that is (main) or is not the main thread.
\* The OS queries of one construction are answered from one configuration; the
\* configuration may change between two constructions.
new(id, main) ==
    LET cg_display == id
        screen_num == ModelNumber(cg_display)
        cg_rect    == CGDisplayBounds(cg_display)
        mode       == get_cg_display_mode(cg_display)
    IN IF mode.kind = "Err" THEN Err(mode.err)
       ELSE LET sm == screen_map(main)
            IN IF sm.kind = "Panic" THEN Panic
               ELSE Ok(<< MonitorRecord(cg_display, screen_num, cg_rect, mode.value[1],
                                        UnwrapOrMap(sm, EmptyMap)) >>)

\* ------------------------------------------------------------ the caller

\* A call starts from the idle caller; the frame of an earlier all() or
\* from_point() is gone.
NewFrame ==
    /\ allIdx' = 0
    /\ acc' = <<>>
    /\ newLog' = <<>>
    /\ captured' = <<>>

Logged(id, r) == [id |-> id, kind |-> r.kind, err |-> r.err, value |-> r.value]

\* A call of ImplMonitor::new(id) from another module of the crate.
CallNew(id, main) ==
    /\ pc = "idle"
    /\ LET r == new(id, main)
       IN /\ result' = Returned("new", r)
          /\ monitors' = IF r.kind = "Ok" THEN r.value ELSE monitors
    /\ call' = [NoCall EXCEPT !.op = "new", !.main = main, !.id = id]
    /\ newLog' = <<Logged(id, new(id, main))>>
    /\ allIdx' = 0
    /\ acc' = <<>>
    /\ captured' = <<>>
    /\ lastOp' = "new"
    /\ UNCHANGED <<envVars, pc>>

\* A call of ImplMonitor::screen_map().
CallScreenMap(main) ==
    /\ pc = "idle"
    /\ result' = Returned("screen_map", screen_map(main))
    /\ call' = [NoCall EXCEPT !.op = "screen_map", !.main = main]
    /\ NewFrame
    /\ lastOp' = "screen_map"
    /\ UNCHANGED <<envVars, pc, monitors>>

\* ImplMonitor::all(), up to the loop: CGDisplay::active_displays()? answers
\* with the error cg_error or with the active display list.
CallAll(main, cg_error) ==
    /\ pc = "idle"
    /\ NewFrame
    /\ IF cg_error # CGErrorSuccess
       THEN /\ result' = Returned("all", Err(FromCGError(cg_error)))
            /\ call' = [NoCall EXCEPT !.op = "all", !.main = main, !.cg_error = cg_error]
            /\ pc' = "idle"
       ELSE /\ result' = result
            /\ call' = [NoCall EXCEPT !.op = "all", !.main = main,
                                      !.display_ids = activeList,
                                      !.display_count = Len(activeList)]
            /\ pc' = "all"
    /\ lastOp' = "all_query"
    /\ UNCHANGED <<envVars, monitors>>

\* A bug (the code before issue 118): ImplMonitor::new(display_id)? makes all()
\* return the error of a failed construction.
AllStepPropagating ==
    /\ pc = "all"
    /\ allIdx < Len(call.display_ids)
    /\ LET display_id == call.display_ids[allIdx + 1]
           r          == new(display_id, call.main)
       IN /\ newLog' = Append(newLog, Logged(display_id, r))
          /\ allIdx' = allIdx + 1
          /\ IF r.kind # "Ok"
             THEN /\ result' = Returned("all", r)
                  /\ pc' = "idle"
                  /\ acc' = acc
             ELSE /\ acc' = acc \o r.value
                  /\ UNCHANGED <<result, pc>>
    /\ lastOp' = "all_new"
    /\ UNCHANGED <<envVars, call, monitors, captured>>

\* One iteration of `for display_id in display_ids`: a failed construction is
\* logged and skipped; a panic unwinds all().
AllStep ==
    /\ pc = "all"
    /\ allIdx < Len(call.display_ids)
    /\ LET display_id == call.display_ids[allIdx + 1]
           r          == new(display_id, call.main)
       IN /\ newLog' = Append(newLog, Logged(display_id, r))
          /\ allIdx' = allIdx + 1
          /\ IF r.kind = "Panic"
             THEN /\ result' = Returned("all", Panic)
                  /\ pc' = "idle"
                  /\ acc' = acc
             ELSE /\ acc' = IF r.kind = "Ok" THEN acc \o r.value ELSE acc
                  /\ UNCHANGED <<result, pc>>
    /\ lastOp' = "all_new"
    /\ UNCHANGED <<envVars, call, monitors, captured>>

\* Ok(impl_monitors)
AllReturn ==
    /\ pc = "all"
    /\ allIdx = Len(call.display_ids)
    /\ result' = Returned("all", Ok(acc))
    /\ monitors' = acc
    /\ pc' = "idle"
    /\ lastOp' = "all"
    /\ UNCHANGED <<envVars, call, allIdx, acc, newLog, captured>>

\* A bug: the entry is selected by the reported count (the last id reported).
FirstDisplayIdByCount(display_ids, display_count) ==
    IF Len(display_ids) < display_count THEN <<>> ELSE <<display_ids[display_count]>>

\* display_ids.first(): the first entry of the buffer, None for an empty one.
FirstDisplayId(display_ids, display_count) ==
    IF Len(display_ids) = 0 THEN <<>> ELSE <<display_ids[1]>>

\* A bug: the error code of the point query is dropped.
PointQueryErrorDropped(cg_error) == Err(XCapErrorNew("Get displays from point failed"))

\* return Err(XCapError::CoreGraphicsDisplayCGError(cg_error))
PointQueryError(cg_error) == Err(CoreGraphicsDisplayCGError(cg_error))

\* from_point(x, y) up to the construction of the monitor: the outcome, and
\* whether from_point goes on to the is_active check.
FromPointNew(q, main, cg_error) ==
    IF cg_error # CGErrorSuccess
    THEN [done |-> TRUE, r |-> PointQueryError(cg_error), log |-> <<>>]
    ELSE IF q.display_count = 0
    THEN [done |-> TRUE, r |-> Err(XCapErrorNew("Get displays from point failed")), log |-> <<>>]
    ELSE LET display_id == FirstDisplayId(q.display_ids, q.display_count)
         IN IF display_id = <<>>
            THEN [done |-> TRUE, r |-> Err(XCapErrorNew("Monitor not found")), log |-> <<>>]
            ELSE LET r == new(display_id[1], main)
                 IN [done |-> r.kind # "Ok", r |-> r, log |-> <<Logged(display_id[1], r)>>]

\* ImplMonitor::from_point(x, y), lines 93 to 122.
CallFromPoint(p, main, cg_error) ==
    /\ pc = "idle"
    /\ LET max_displays == MaxDisplays
           point == <<p[1], p[2]>>
           q     == CGGetDisplaysWithPoint(point, max_displays, ZeroBuffer(max_displays), cg_error)
           s     == FromPointNew(q, main, cg_error)
       IN /\ call' = [NoCall EXCEPT !.op = "from_point", !.main = main, !.cg_error = cg_error,
                                    !.point = p, !.display_ids = q.display_ids,
                                    !.display_count = q.display_count]
          /\ newLog' = s.log
          /\ IF s.done
             THEN /\ result' = Returned("from_point", s.r)
                  /\ pc' = "idle"
                  /\ acc' = <<>>
             ELSE /\ result' = result
                  /\ pc' = "from_point"
                  /\ acc' = s.r.value
    /\ allIdx' = 0
    /\ captured' = <<>>
    /\ lastOp' = "from_point_new"
    /\ UNCHANGED <<envVars, monitors>>

\* The outcome of from_point for the monitor it built, lines 124 to 128.
FromPointActive(impl_monitor) ==
    IF ~CGDisplayIsActive(impl_monitor.cg_display)
    THEN Err(XCapErrorNew("Monitor is not active"))
    ELSE Ok(<<impl_monitor>>)

FromPointReturn ==
    /\ pc = "from_point"
    /\ LET r == FromPointActive(acc[1])
       IN /\ result' = Returned("from_point", r)
          /\ monitors' = IF r.kind = "Ok" THEN r.value ELSE monitors
    /\ pc' = "idle"
    /\ lastOp' = "from_point"
    /\ UNCHANGED <<envVars, call, allIdx, acc, newLog, captured>>

\* A bug: the rectangle is the geometry stored in the record.
CaptureArgsStored(m) ==
    [ rect   |-> Rect(m.x, m.y, m.width, m.height),
      option |-> kCGWindowListOptionAll,
      window |-> kCGNullWindowID ]

\* The arguments capture_image hands to capture().
CaptureArgs(m) ==
    [ rect   |-> CGDisplayBounds(m.cg_display),
      option |-> kCGWindowListOptionAll,
      window |-> kCGNullWindowID ]

\* What capture() and ImplVideoRecorder::new() may answer: an image or a
\* recorder (not modelled further), or an error of theirs.
LowerLevelError == [variant |-> "LowerLevel", code |-> 0, msg |-> ""]

LowerLevelOutcomes == { Ok(<<>>), Err(LowerLevelError) }

\* A bug: capture_image(&mut self) refreshes the record's geometry.
CaptureImageRefreshing(i, out) ==
    /\ pc = "idle"
    /\ i \in 1..Len(monitors)
    /\ LET r == CGDisplayBounds(monitors[i].cg_display)
       IN /\ captured' = << [rect |-> r, option |-> kCGWindowListOptionAll,
                              window |-> kCGNullWindowID] >>
          /\ monitors' = [monitors EXCEPT ![i].x = F64AsI32(r.x), ![i].y = F64AsI32(r.y),
                                           ![i].width = F64AsU32(r.width),
                                           ![i].height = F64AsU32(r.height)]
    /\ result' = Returned("capture_image", out)
    /\ call' = [NoCall EXCEPT !.op = "capture_image", !.id = i]
    /\ allIdx' = 0
    /\ acc' = <<>>
    /\ newLog' = <<>>
    /\ lastOp' = "capture_image"
    /\ UNCHANGED <<envVars, pc>>

\* capture_image(&self) on the i-th record the caller holds.
CaptureImage(i, out) ==
    /\ pc = "idle"
    /\ i \in 1..Len(monitors)
    /\ captured' = <<CaptureArgs(monitors[i])>>
    /\ result' = Returned("capture_image", out)
    /\ call' = [NoCall EXCEPT !.op = "capture_image", !.id = i]
    /\ allIdx' = 0
    /\ acc' = <<>>
    /\ newLog' = <<>>
    /\ lastOp' = "capture_image"
    /\ UNCHANGED <<envVars, pc, monitors>>

\* video_recorder(&self) on the i-th record the caller holds.
VideoRecorder(i, out) ==
    /\ pc = "idle"
    /\ i \in 1..Len(monitors)
    /\ result' = Returned("video_recorder", out)
    /\ call' = [NoCall EXCEPT !.op = "video_recorder", !.id = i]
    /\ NewFrame
    /\ lastOp' = "video_recorder"
    /\ UNCHANGED <<envVars, pc, monitors>>

\* ------------------------------------------- the OS changes configuration

EnvStep ==
    /\ envSteps < MaxEnvSteps
    /\ envSteps' = envSteps + 1
    /\ lastOp' = "os"
    /\ UNCHANGED progVars

Remove(s, id) == SelectSeq(s, LAMBDA e : e # id)

\* A display is plugged in and becomes the last active display.
Connect(id, c) ==
    /\ EnvStep
    /\ ~CGDisplayIsActive(id)
    /\ os' = [os EXCEPT ![id] = c]
    /\ activeList' = Append(activeList, id)
    /\ UNCHANGED screens

\* A display is unplugged.
Disconnect(id) ==
    /\ EnvStep
    /\ CGDisplayIsActive(id)
    /\ os' = [os EXCEPT ![id] = NoConfig]
    /\ activeList' = Remove(activeList, id)
    /\ UNCHANGED screens

\* During a hot-plug a display still listed loses its display mode.
ModeLost(id) ==
    /\ EnvStep
    /\ os[id].mode # <<>>
    /\ os' = [os EXCEPT ![id].mode = <<>>]
    /\ UNCHANGED <<activeList, screens>>

\* A display is moved or switches resolution, refresh rate or orientation.
Reconfigure(id, c) ==
    /\ EnvStep
    /\ CGDisplayIsActive(id)
    /\ os[id] # c
    /\ os' = [os EXCEPT ![id] = c]
    /\ UNCHANGED <<activeList, screens>>

\* Another display becomes the main display: the first of the list.
MakeMain(id) ==
    /\ EnvStep
    /\ CGDisplayIsActive(id)
    /\ ~CGDisplayIsMain(id)
    /\ activeList' = <<id>> \o Remove(activeList, id)
    /\ UNCHANGED <<os, screens>>

\* NSScreen numbers in use.
ScreenNumbers == { screens[i].number : i \in 1..Len(screens) }

\* AppKit adds a screen: for a display, or one without an NSScreenNumber.
ScreenAdded(s) ==
    /\ EnvStep
    /\ s.number \notin ScreenNumbers
    /\ screens' = Append(screens, s)
    /\ UNCHANGED <<os, activeList>>

\* AppKit drops a screen.
ScreenRemoved(i) ==
    /\ EnvStep
    /\ i \in 1..Len(screens)
    /\ screens' = [j \in 1..(Len(screens) - 1) |-> IF j < i THEN screens[j] ELSE screens[j + 1]]
    /\ UNCHANGED <<os, activeList>>

PossibleScreens ==
    { NSScreen(<<id>>, LocalizedName(id)) : id \in Ids } \cup { NSScreen(<<>>, "Sidecar Display") }

\* ------------------------------------------------------- specification

\* A built-in display, active and main, alone or with an external display to
\* its left, each with its screen; nothing called yet.
Init ==
    /\ activeList \in { <<1>>, <<1, 2>> }
    /\ os = [id \in Ids |->
               IF id = 1
               THEN Config(Rect(0, 0, 1920, 1080), Mode(3840, 60 * Pow2(HzFracBits)), 0)
               ELSE IF id \in Range(activeList)
               THEN Config(Rect(-1080, -420, 1080, 1920), Mode(1080, 62851645), 90)
               ELSE NoConfig]
    /\ screens = [i \in 1..Len(activeList) |->
                    NSScreen(<<activeList[i]>>, LocalizedName(activeList[i]))]
    /\ envSteps = 0
    /\ pc = "idle"
    /\ call = NoCall
    /\ allIdx = 0
    /\ acc = <<>>
    /\ newLog = <<>>
    /\ result = Returned("none", Ok(<<>>))
    /\ monitors = <<>>
    /\ captured = <<>>
    /\ lastOp = "init"

Next ==
    \/ \E id \in Ids, main \in BOOLEAN : CallNew(id, main)
    \/ \E main \in BOOLEAN : CallScreenMap(main)
    \/ \E main \in BOOLEAN, e \in CGErrors : CallAll(main, e)
    \/ AllStep
    \/ AllReturn
    \/ \E p \in Points, main \in BOOLEAN, e \in CGErrors : CallFromPoint(p, main, e)
    \/ FromPointReturn
    \/ \E i \in 1..NumDisplays, out \in LowerLevelOutcomes : CaptureImage(i, out)
    \/ \E i \in 1..NumDisplays, out \in LowerLevelOutcomes : VideoRecorder(i, out)
    \/ \E id \in Ids, c \in Configs : Connect(id, c)
    \/ \E id \in Ids : Disconnect(id)
    \/ \E id \in Ids : ModeLost(id)
    \/ \E id \in Ids, c \in Configs : Reconfigure(id, c)
    \/ \E id \in Ids : MakeMain(id)
    \/ \E s \in PossibleScreens : ScreenAdded(s)
    \/ \E i \in 1..(NumDisplays + 1) : ScreenRemoved(i)

Spec == Init /\ [][Next]_vars

\* ------------------------------------------------------------- properties

\* The call of op has finished: result is what it returned.
Finished(op) == pc = "idle" /\ call.op = op

\* The step just taken ran ImplMonitor::new, and the OS has not changed since.
Constructed ==
    /\ lastOp \in {"new", "all_new", "from_point_new"}
    /\ newLog # <<>>

\* The construction just run: its id and its outcome.
LastNew == newLog[Len(newLog)]

\* The values of the constructions of the log that returned Ok, in order.
RECURSIVE BuiltOk(_)
BuiltOk(log) ==
    IF log = <<>> THEN <<>>
    ELSE (IF Head(log).kind = "Ok" THEN Head(log).value ELSE <<>>) \o BuiltOk(Tail(log))

\* The screens showing display id.
ScreensOf(id) == { i \in 1..Len(screens) : screens[i].number = <<id>> }

\* C1 (as claimed). When the active-display query succeeded, all() returns Ok
\* with exactly the records of the displays whose construction succeeded, one
\* construction per listed id, in the order of the list; it never returns Err.
C1_AllReturnsBuiltDisplays ==
    (Finished("all") /\ call.cg_error = CGErrorSuccess) =>
        /\ result.kind = "Ok"
        /\ [i \in 1..Len(newLog) |-> newLog[i].id] = call.display_ids
        /\ result.value = BuiltOk(newLog)
        /\ Len(result.value) <= Len(call.display_ids)

\* C2 (as claimed). Every error returned by all, from_point and new is the
\* error code the OS call returned, passed through.
C2_EveryErrorIsNativeCode ==
    \A op \in {"all", "from_point", "new"} :
        (Finished(op) /\ result.kind = "Err") =>
            /\ call.cg_error # CGErrorSuccess
            /\ result.err.variant \in {"CoreGraphicsDisplayCGError", "From<CGError>"}
            /\ result.err.code = call.cg_error

FixedMessages ==
    { "Get display mode failed", "Get displays from point failed", "Monitor is not active" }

\* C2 (amended). When the OS query of all() or from_point() answers with an
\* error code, the call returns an error carrying exactly that code (all()
\* through the `?` conversion, from_point in CoreGraphicsDisplayCGError);
\* every other error of from_point and new is one of three fixed messages
\* carrying no OS code, and all() returns no other error.
C2_NativeCodesPassThrough ==
    \A op \in {"all", "from_point", "new"} :
        Finished(op) =>
            /\ (call.cg_error # CGErrorSuccess) =>
                   /\ result.kind = "Err"
                   /\ result.err.code = call.cg_error
                   /\ result.err.msg = ""
                   /\ result.err.variant =
                          (IF op = "all" THEN "From<CGError>" ELSE "CoreGraphicsDisplayCGError")
            /\ (call.cg_error = CGErrorSuccess /\ result.kind = "Err") =>
                   /\ op # "all"
                   /\ result.err.variant = "Error"
                   /\ result.err.code = 0
                   /\ result.err.msg \in FixedMessages

\* from_point has returned the code of a failed point query.
C2_Witness ==
    /\ Finished("from_point")
    /\ result.kind = "Err"
    /\ result.err = CoreGraphicsDisplayCGError(1001)

\* C3. A record is immutable once constructed: capture_image and
\* video_recorder leave every record the caller holds unchanged, the records
\* change only by a call returning newly constructed ones, and all() never
\* changes a record it has already pushed.
C3_RecordsImmutable ==
    [][ /\ (lastOp' \in {"capture_image", "video_recorder", "os"}) => monitors' = monitors
        /\ (monitors' # monitors) =>
               /\ lastOp' \in {"new", "all", "from_point"}
               /\ result'.kind = "Ok"
               /\ monitors' = result'.value
        /\ (pc = "all" /\ pc' = "all") =>
               /\ Len(acc') >= Len(acc)
               /\ SubSeq(acc', 1, Len(acc)) = acc ]_vars

\* capture_image has run on a record whose display has changed its bounds
\* since the record was constructed.
C3_Witness ==
    /\ lastOp \in {"capture_image", "video_recorder"}
    /\ Len(monitors) = 2
    /\ \E i \in 1..Len(monitors) :
           CGDisplayBounds(monitors[i].id).width # monitors[i].width

\* C4. A record ImplMonitor::new(id) returns is populated from the OS answers
\* for the same display at construction: id, the origin and size of its
\* bounds, the main-display answer, the rotation and the refresh rate of the
\* current mode (each in the field's type: the f32 nearest to the f64).
C4_RecordFromOS ==
    (Constructed /\ LastNew.kind = "Ok") =>
        LET id == LastNew.id
            m  == LastNew.value[1]
        IN /\ id \in Ids
           /\ m.id = id
           /\ m.cg_display = id
           /\ m.x = os[id].bounds.x
           /\ m.y = os[id].bounds.y
           /\ m.width = os[id].bounds.width
           /\ m.height = os[id].bounds.height
           /\ m.is_primary = (activeList # <<>> /\ Head(activeList) = id)
           /\ m.rotation = os[id].rotation
           /\ m.frequency = F64AsF32(os[id].mode[1].refresh_rate)

\* A second display, left of the main one and not main, has been constructed at
\* 59.94 Hz.
C4_Witness ==
    /\ Constructed
    /\ LastNew.kind = "Ok"
    /\ LastNew.value[1].x < 0
    /\ ~LastNew.value[1].is_primary
    /\ LastNew.value[1].frequency # 60 * Pow2(HzFracBits)

\* C5. capture_image calls capture() with the bounds the OS reports for the
\* display at the time of the call, the 'all windows' option and the null
\* window id (not with the geometry stored in the record).
C5_CaptureUsesCurrentBounds ==
    (lastOp = "capture_image") =>
        /\ Len(captured) = 1
        /\ captured[1].rect = os[monitors[call.id].id].bounds
        /\ captured[1].option = 0
        /\ captured[1].window = 0

\* The display has changed its bounds between construction and capture: the
\* captured rectangle is not the record's.
C5_Witness ==
    /\ lastOp = "capture_image"
    /\ LET m == monitors[call.id]
       IN /\ captured[1].rect # Rect(m.x, m.y, m.width, m.height)
          /\ captured[1].rect.width > 0

\* C6 (as claimed). from_point decides its outcome by the first case that
\* applies: (1) the point query's error code, (2) a count of 0, (3) the error
\* of the failed construction of the first id, (4) "Monitor is not active",
\* (5) otherwise Ok with the monitor of the first id.
C6_FromPointCases ==
    (Finished("from_point") /\ lastOp \in {"from_point_new", "from_point"}) =>
        IF call.cg_error # CGErrorSuccess
        THEN /\ result.kind = "Err"
             /\ result.err = CoreGraphicsDisplayCGError(call.cg_error)
             /\ newLog = <<>>
        ELSE IF call.display_count = 0
        THEN /\ result.kind = "Err"
             /\ result.err = XCapErrorNew("Get displays from point failed")
        ELSE IF newLog # <<>> /\ newLog[1].kind = "Err"
        THEN /\ result.kind = "Err"
             /\ result.err = newLog[1].err
             /\ newLog[1].id = call.display_ids[1]
        ELSE IF ~CGDisplayIsActive(call.display_ids[1])
        THEN /\ result.kind = "Err"
             /\ result.err = XCapErrorNew("Monitor is not active")
        ELSE /\ result.kind = "Ok"
             /\ result.value[1].id = call.display_ids[1]

\* C7. ImplMonitor::new(id) returns Err exactly when the display has no current
\* display mode, and the error is then "Get display mode failed"; all() returns
\* Err exactly when the active-display-list query failed.
C7_ErrIffNoMode ==
    /\ Constructed =>
           /\ (LastNew.kind = "Err") <=> (CGDisplayCopyDisplayMode(LastNew.id) = <<>>)
           /\ (LastNew.kind = "Err") =>
                  LastNew.err = [variant |-> "Error", code |-> 0, msg |-> "Get display mode failed"]
    /\ Finished("new") => (result.kind = LastNew.kind /\ result.err = LastNew.err)
    /\ Finished("all") => ((result.kind = "Err") <=> (call.cg_error # CGErrorSuccess))

\* all() has returned Ok although the construction of a listed display failed
\* for want of a display mode.
C7_Witness ==
    /\ Finished("all")
    /\ result.kind = "Ok"
    /\ \E i \in 1..Len(newLog) : newLog[i].kind = "Err"
    /\ \E i \in 1..Len(newLog) : newLog[i].kind = "Ok"

\* C8. The name of a record built by ImplMonitor::new(id) is the localized
\* name of the screen whose NSScreenNumber is id when there is one, and
\* otherwise exactly "Monitor #<model number>"; it is not empty by default.
C8_NameFromScreenOrDefault ==
    (Constructed /\ LastNew.kind = "Ok") =>
        LET id == LastNew.id
            m  == LastNew.value[1]
        IN /\ (ScreensOf(id) # {}) => (\A i \in ScreensOf(id) : m.name = screens[i].name)
           /\ (ScreensOf(id) = {}) => m.name = "Monitor #" \o ToString(610 + id)
           /\ m.name # ""

\* A display without a screen of its own has been given the default name while
\* another display has a screen.
C8_Witness ==
    /\ Constructed
    /\ LastNew.kind = "Ok"
    /\ LastNew.value[1].name = "Monitor #612"
    /\ \E i \in 1..Len(screens) : screens[i].number = <<1>>

\* C9. screen_map never returns Err: on the main thread it returns Ok with one
\* entry per screen that has an NSScreenNumber, off the main thread it panics.
\* So no record is ever built off the main thread (the empty-map fallback of
\* new is never taken): there new, all and from_point panic as soon as they
\* construct a display that has a display mode.
C9_ScreenMapPanicsOffMain ==
    /\ Finished("screen_map") =>
           /\ result.kind # "Err"
           /\ call.main => result.kind = "Ok"
           /\ ~call.main => result.kind = "Panic"
           /\ (lastOp = "screen_map" /\ call.main) =>
                  /\ DOMAIN result.map =
                         { screens[i].number[1] : i \in { j \in 1..Len(screens) : screens[j].number # <<>> } }
                  /\ Cardinality(DOMAIN result.map) =
                         Cardinality({ j \in 1..Len(screens) : screens[j].number # <<>> })
                  /\ \A i \in 1..Len(screens) :
                         screens[i].number # <<>> => result.map[screens[i].number[1]] = screens[i].name
    /\ (Constructed /\ LastNew.kind = "Ok") => call.main
    /\ (Constructed /\ ~call.main /\ CGDisplayCopyDisplayMode(LastNew.id) # <<>>) =>
           /\ LastNew.kind = "Panic"
           /\ Finished(call.op)
           /\ result.kind = "Panic"

\* all(), called off the main thread, has panicked at its second display after
\* skipping a first one that had no display mode.
C9_Witness ==
    /\ Finished("all")
    /\ ~call.main
    /\ result.kind = "Panic"
    /\ Len(newLog) = 2
    /\ newLog[1].kind = "Err"

\* C10. from_point never returns "Monitor not found": its display-id buffer
\* always has 16 entries, and the display it constructs is always entry 0 of
\* the buffer, whatever count the OS reports.
C10_FirstEntryAlwaysUsed ==
    /\ result.err.msg # "Monitor not found"
    /\ (call.op = "from_point") =>
           /\ Len(call.display_ids) = 16
           /\ (call.cg_error = CGErrorSuccess /\ call.display_count > 0) =>
                  /\ Len(newLog) = 1
                  /\ newLog[1].id = call.display_ids[1]
           /\ (call.cg_error # CGErrorSuccess \/ call.display_count = 0) => newLog = <<>>

\* Two mirrored displays contain the point: the OS reported both, and the
\* monitor returned is the first.
C10_Witness ==
    /\ Finished("from_point")
    /\ call.display_count = 2
    /\ result.kind = "Ok"
    /\ result.value[1].id = call.display_ids[1]
    /\ call.display_ids[2] # call.display_ids[1]

====
